---------------------------- MODULE Spec2Model ----------------------------
(***************************************************************************)
(* A model of the DBF-to-CSV converter of src/src/utils/dbf.ts.            *)
(*                                                                         *)
(* A buffer is a sequence of bytes (0..255); the byte at offset o of the   *)
(* ArrayBuffer is buffer[o + 1].  A text is a sequence of UTF-16 code      *)
(* units (naturals).  convertDbfToCsv is modelled as a state machine with  *)
(* one action per block of the function; its loops take one iteration per  *)
(* step.                                                                   *)
(***************************************************************************)
EXTENDS Integers, Sequences, FiniteSets, TLC

(***************************************************************************)
(* Bounds of the input family explored by the model checker.               *)
(***************************************************************************)
\* Number of record slots laid out in a generated buffer.
MaxRecords == 2
\* Largest declared field length in a generated field descriptor.
MaxFieldLen == 2

\* The longest text a text helper is called on.
MaxTextLen == 3

(***************************************************************************)
(* Constants of the program.                                               *)
(***************************************************************************)
\* dbf.ts:33, the fixed header preamble; dbf.ts:50, the first descriptor.
PreambleSize == 32
\* dbf.ts:66, the size of one field descriptor entry.
DescriptorSize == 32
\* dbf.ts:59, the bytes of a descriptor's name.
NameSize == 11
\* dbf.ts:54, the descriptor table's terminator.
Terminator == 13
\* dbf.ts:90, the deletion flag of a deleted record.
DeletedFlag == 42

\* The messages of the six errors thrown by convertDbfToCsv.
ErrTooSmall == "Buffer is too small to be a valid DBF file."
ErrMalformed == "Malformed DBF header."
ErrHeaderTooLarge == "Header length is larger than the file itself."
ErrNoFields == "DBF file does not define any fields."
ErrTruncated == "DBF payload is truncated."
ErrRecordBeyond == "Encountered a record extending beyond the file size."
\* The error DataView.getUint8 and the Uint8Array constructor throw for an
\* offset or a span outside the ArrayBuffer.
RangeError == "RangeError"
NoError == "none"

DescriptiveErrors ==
    {ErrTooSmall, ErrMalformed, ErrHeaderTooLarge, ErrNoFields, ErrTruncated,
     ErrRecordBeyond}

(***************************************************************************)
(* Characters.                                                             *)
(***************************************************************************)
NUL == 0
LF == 10
CR == 13
QUOTE == 34
COMMA == 44

Max(a, b) == IF a >= b THEN a ELSE b
Min(a, b) == IF a <= b THEN a ELSE b

(***************************************************************************)
(* asciiDecoder.decode: the label "ascii" names the windows-1252 decoder   *)
(* of the Encoding standard.  One byte yields one code unit; the bytes     *)
(* 0x80..0x9F map through the windows-1252 index, every other byte maps to *)
(* the code point of the same value.                                       *)
(***************************************************************************)
Windows1252High ==
    << 8364, 129, 8218, 402, 8222, 8230, 8224, 8225,
       710, 8240, 352, 8249, 338, 141, 381, 143,
       144, 8216, 8217, 8220, 8221, 8226, 8211, 8212,
       732, 8482, 353, 8250, 339, 157, 382, 376 >>

decodeByte(b) ==
    IF b >= 128 /\ b <= 159 THEN Windows1252High[b - 127] ELSE b

decode(bytes) == [i \in 1..Len(bytes) |-> decodeByte(bytes[i])]

\* String.prototype.trim removes WhiteSpace and LineTerminator code units.
IsWhiteSpace(c) ==
    \/ c \in {9, 10, 11, 12, 13, 32, 160, 5760, 8232, 8233, 8239, 8287,
              12288, 65279}
    \/ (c >= 8192 /\ c <= 8202)

\* A trim that removes nothing.
trimNone(s) == s

\* dbf.ts:21, String.prototype.trim
trim(s) ==
    LET keep == {i \in 1..Len(s) : ~IsWhiteSpace(s[i])}
    IN  IF keep = {} THEN << >>
        ELSE LET first == CHOOSE i \in keep : \A j \in keep : i <= j
                 last == CHOOSE i \in keep : \A j \in keep : j <= i
             IN  SubSeq(s, first, last)

\* A text cut at its first NUL.
removeNulCutAtFirst(s) ==
    LET nuls == {i \in 1..Len(s) : s[i] = NUL}
    IN  IF nuls = {} THEN s
        ELSE SubSeq(s, 1, (CHOOSE i \in nuls : \A j \in nuls : i <= j) - 1)

\* decoded.replace(/\u0000/g, ""): every NUL is removed.
removeNul(s) == SelectSeq(s, LAMBDA c : c # NUL)

\* dbf.ts:19-22
sanitizeText(bytes) == trim(removeNul(decode(bytes)))

(***************************************************************************)
(* escapeCsv, dbf.ts:24-29.                                                *)
(***************************************************************************)
includes(value, c) == \E i \in 1..Len(value) : value[i] = c

\* A wrapper test that forgets the comma.
needsWrapperNoComma(value) ==
    \/ includes(value, QUOTE)
    \/ includes(value, LF)
    \/ includes(value, CR)

\* A wrapper test that forgets the carriage return.
needsWrapperNoCarriageReturn(value) ==
    \/ includes(value, COMMA)
    \/ includes(value, QUOTE)
    \/ includes(value, LF)

\* dbf.ts:25-26
needsWrapper(value) ==
    \/ includes(value, COMMA)
    \/ includes(value, QUOTE)
    \/ includes(value, LF)
    \/ includes(value, CR)

RECURSIVE doubleQuotes(_)
\* value.replace(/"/g, '""')
doubleQuotes(value) ==
    IF value = << >> THEN << >>
    ELSE (IF Head(value) = QUOTE THEN <<QUOTE, QUOTE>> ELSE <<Head(value)>>)
         \o doubleQuotes(Tail(value))

\* An escaping that wraps without doubling the quotes inside.
escapeCsvNoDoubling(value) ==
    IF needsWrapper(value) THEN <<QUOTE>> \o value \o <<QUOTE>> ELSE value

\* dbf.ts:24-29
escapeCsv(value) ==
    LET escaped == doubleQuotes(value)
    IN  IF needsWrapper(value) THEN <<QUOTE>> \o escaped \o <<QUOTE>>
        ELSE escaped

RECURSIVE join(_, _)
\* Array.prototype.join
join(parts, sep) ==
    IF parts = << >> THEN << >>
    ELSE IF Len(parts) = 1 THEN parts[1]
    ELSE parts[1] \o sep \o join(Tail(parts), sep)

RECURSIVE decimal(_)
\* The decimal digits of a natural, as the template literal prints it.
decimal(n) ==
    IF n < 10 THEN <<48 + n>> ELSE decimal(n \div 10) \o <<48 + (n % 10)>>

\* `FIELD_${n}`, dbf.ts:60
fallbackName(n) == <<70, 73, 69, 76, 68, 95>> \o decimal(n)

(***************************************************************************)
(* Reads of the buffer.                                                    *)
(***************************************************************************)
byteLength(buf) == Len(buf)

\* view.getUint8(o), for an offset inside the buffer
getUint8(buf, o) == buf[o + 1]

\* view.getUint16(o, true)
getUint16(buf, o) == getUint8(buf, o) + 256 * getUint8(buf, o + 1)

\* view.getUint32(o, true)
getUint32(buf, o) ==
    getUint8(buf, o) + 256 * getUint8(buf, o + 1)
    + 65536 * getUint8(buf, o + 2) + 16777216 * getUint8(buf, o + 3)

\* new Uint8Array(buffer, o, n), for a span inside the buffer
slice(buf, o, n) == SubSeq(buf, o + 1, o + n)

\* Whether getUint8(o) is inside the buffer; outside, it throws a RangeError.
byteInside(buf, o) == o + 1 <= byteLength(buf)

\* Whether new Uint8Array(buffer, o, n) is inside the buffer; outside, it
\* throws a RangeError.
spanInside(buf, o, n) == o + n <= byteLength(buf)


(***************************************************************************)
(* The checks of convertDbfToCsv, each as the source writes it.            *)
(***************************************************************************)
\* A size check that lets a buffer of 31 bytes through.
tooSmallOffByOne(buf) == byteLength(buf) < PreambleSize - 1

\* dbf.ts:33
tooSmall(buf) == byteLength(buf) < PreambleSize

\* A header check that rejects only two zero lengths together.
malformedHeaderBoth(hl, rl) == hl = 0 /\ rl = 0

\* A header check that looks at the header length only.
malformedHeaderLengthOnly(hl, rl) == hl = 0

\* dbf.ts:41
malformedHeader(hl, rl) == hl = 0 \/ rl = 0

\* A header check that also rejects a header filling the whole buffer.
headerTooLargeOrEqual(hl, buf) == hl >= byteLength(buf)

\* dbf.ts:45
headerTooLarge(hl, buf) == hl > byteLength(buf)

\* A loop test that also reads the entry starting at the header length.
moreDescriptorsInclusive(offset, hl) == offset <= hl

\* dbf.ts:52
moreDescriptors(offset, hl) == offset < hl

\* dbf.ts:54
isTerminator(marker) == marker = Terminator

\* A field check that no table fails.
noFieldsNever(fs) == Len(fs) < 0

\* dbf.ts:69
noFields(fs) == Len(fs) = 0

\* A payload check that asks only for one byte after the header.
payloadTruncatedNoData(dataStart, rl, buf) == dataStart >= byteLength(buf)

\* dbf.ts:77
payloadTruncated(dataStart, rl, buf) == dataStart + rl > byteLength(buf)

\* A record offset counted from the record after the data start.
recordOffsetFromOne(dataStart, index, rl) == dataStart + (index + 1) * rl

\* dbf.ts:84
recordOffsetOf(dataStart, index, rl) == dataStart + index * rl

\* A record check that stops one record early at an exact fit.
recordOutsideOffByOne(offset, rl, buf) == offset + rl >= byteLength(buf)

\* A record check that looks at the record's first byte only.
recordOutsideIgnoresLength(offset, rl, buf) == offset >= byteLength(buf)

\* A record check that never ends the scan.
recordOutsideNever(offset, rl, buf) == FALSE

\* dbf.ts:85
recordOutside(offset, rl, buf) == offset + rl > byteLength(buf)

\* A flag test that takes only 0x20 for a live record.
isDeletedUnlessSpace(flag) == flag # 32

\* dbf.ts:90
isDeleted(flag) == flag = DeletedFlag

\* dbf.ts:94
firstFieldOffset(offset) == offset + 1

\* A field check that lets a span end one byte past the buffer.
fieldOutsideOffByOne(offset, length, buf) == offset + length > byteLength(buf) + 1

\* A field check that rejects a span ending at the last byte of the buffer.
fieldOutsideAtEnd(offset, length, buf) == offset + length >= byteLength(buf)

\* dbf.ts:98
fieldOutside(offset, length, buf) == offset + length > byteLength(buf)

\* A fallback name numbered from the fields collected before, from 0.
fieldNameZeroBased(nameBytes, collected) ==
    LET name == sanitizeText(nameBytes)
    IN  IF name = << >> THEN fallbackName(collected) ELSE name

\* dbf.ts:60
fieldName(nameBytes, collected) ==
    LET name == sanitizeText(nameBytes)
    IN  IF name = << >> THEN fallbackName(collected + 1) ELSE name

\* dbf.ts:74
headerRow(fs) == join([i \in 1..Len(fs) |-> escapeCsv(fs[i].name)], <<COMMA>>)

\* Rows joined with a bare line feed.
csvTextLineFeed(rs) == join(rs, <<LF>>)

\* dbf.ts:112
csvText(rs) == join(rs, <<CR, LF>>)

(***************************************************************************)
(* The module's TextDecoder.  A TextDecoder keeps a do-not-flush flag and  *)
(* an I/O queue between calls of decode: a call starts from an empty queue *)
(* unless the call before it was made with {stream: true}, decodes what is *)
(* queued followed by its input, and leaves in the queue what its decoder  *)
(* has not consumed.                                                       *)
(***************************************************************************)
\* dbf.ts:17, the decoder as constructed
newDecoder == [doNotFlush |-> FALSE, ioQueue |-> << >>]

\* dbf.ts:20, the bytes a call of decode(bytes) decodes
decoderQueue(decoder, bytes) ==
    (IF decoder.doNotFlush THEN decoder.ioQueue ELSE << >>) \o bytes

\* A decoder used as a stream that holds back the last byte it was given.
decoderAfterStreaming(decoder, bytes) ==
    [ doNotFlush |-> TRUE,
      ioQueue |-> IF bytes = << >> THEN << >> ELSE <<bytes[Len(bytes)]>> ]

\* A decoder used as a stream that is never drained of what it was given.
decoderAfterUndrained(decoder, bytes) == [doNotFlush |-> TRUE, ioQueue |-> bytes]

\* dbf.ts:20, the decoder after decode(bytes): the call passes no options,
\* so do-not-flush is cleared, and the single-byte decoder has consumed
\* every byte of the queue.
decoderAfter(decoder, bytes) == [doNotFlush |-> FALSE, ioQueue |-> << >>]

\* sanitizeText writing spaces over the NULs of the bytes it is given.
bufferAfterSanitizeInPlace(buf, o, n) ==
    [i \in 1..Len(buf) |->
        IF o < i /\ i <= o + n /\ buf[i] = NUL THEN 32 ELSE buf[i]]

\* dbf.ts:19-22, the buffer after sanitizeText has run on the view of its
\* bytes o .. o+n-1: the view is passed to decode, which only reads it.
bufferAfterSanitize(buf, o, n) == buf

(***************************************************************************)
(* The state of one call of convertDbfToCsv, the state of the module, the  *)
(* calls made around it, and the state of a call of one of the text        *)
(* helpers.                                                                *)
(***************************************************************************)
VARIABLES
    buffer,            \* the ArrayBuffer passed to the call
    pc,                \* the block of the function about to run
    error,             \* the message of the error thrown, or NoError
    result,            \* << >>, or <<r>> with r the DbfCsvResult returned
    recordCount,       \* dbf.ts:37
    headerLength,      \* dbf.ts:38
    recordLength,      \* dbf.ts:39
    fields,            \* dbf.ts:49
    descriptorOffset,  \* dbf.ts:50
    rows,              \* dbf.ts:73
    parsedRecords,     \* dbf.ts:81
    rowIndex,          \* dbf.ts:83
    fieldOffset,       \* dbf.ts:94
    csvCells,          \* dbf.ts:95
    fieldIndex,        \* the position of the for-of loop of dbf.ts:97
    maxRead,           \* history: the highest offset a read has asked for
    emitted,           \* history: the record index behind each data row
    asciiDecoder,      \* dbf.ts:17, the TextDecoder of the module
    other,             \* << >>, or <<f>> with f the frame of a suspended call
    phase,             \* where the sequence of calls stands
    outcomes,          \* history: the outcome of every call that has ended
    arg,               \* the argument of a call of a text helper
    ret,               \* what the call of the text helper returned
    fn,                \* the text helper that was called, or "none"
    scriptTag,         \* App.tsx:119, the document holds the GovMap script tag
    govmap,            \* window.govmap is defined
    listening,         \* handlers of ensureScript await the load or error event
    scriptStatus,      \* App.tsx:82
    mapStatus,         \* App.tsx:85
    isFirstRender,     \* App.tsx:106, isFirstRender.current
    createMapCalls,    \* the createMap promise of every rebuildMap call made
    dbfFile,           \* App.tsx:101, << >> for null or <<file>>
    dbfCsvUrl,         \* App.tsx:102, << >> for null or <<text the url serves>>
    dbfSummary,        \* App.tsx:103, << >> for null or <<summary>>
    dbfError,          \* App.tsx:104, << >> for null or <<message>>
    dbfBusy,           \* App.tsx:105
    converting         \* << >>, or <<file>> whose bytes handleDbfConvert awaits

\* The variables of one call of convertDbfToCsv.
callVars ==
    << buffer, pc, error, result, recordCount, headerLength, recordLength,
       fields, descriptorOffset, rows, parsedRecords, rowIndex, fieldOffset,
       csvCells, fieldIndex, maxRead, emitted >>

\* The variables of the sequence of calls.
callsVars == << other, phase, outcomes >>

\* The variables of a call of a text helper.
textVars == << arg, ret, fn >>

\* The state of the App component that the map and the converter panel use.
\* The state of the script and of the map.
mapVars ==
    << scriptTag, govmap, listening, scriptStatus, mapStatus, isFirstRender,
       createMapCalls >>

\* The state of the converter panel.
dbfVars == << dbfFile, dbfCsvUrl, dbfSummary, dbfError, dbfBusy, converting >>

uiVars == << mapVars, dbfVars >>

vars == << callVars, asciiDecoder, callsVars, textVars, uiVars >>

\* throw new Error(message): the call ends without a result.
Throw(message) ==
    /\ error' = message
    /\ pc' = "done"

\* dbf.ts:32-50
ValidateHeader ==
    /\ pc = "start"
    /\ IF tooSmall(buffer)
       THEN /\ Throw(ErrTooSmall)
            /\ UNCHANGED << recordCount, headerLength, recordLength,
                            descriptorOffset, maxRead >>
       ELSE LET rc == getUint32(buffer, 4)
                hl == getUint16(buffer, 8)
                rl == getUint16(buffer, 10)
            IN  /\ recordCount' = rc
                /\ headerLength' = hl
                /\ recordLength' = rl
                /\ maxRead' = Max(maxRead, 11)
                /\ IF malformedHeader(hl, rl)
                   THEN Throw(ErrMalformed) /\ UNCHANGED descriptorOffset
                   ELSE IF headerTooLarge(hl, buffer)
                   THEN Throw(ErrHeaderTooLarge) /\ UNCHANGED descriptorOffset
                   ELSE /\ descriptorOffset' = PreambleSize
                        /\ pc' = "descriptors"
                        /\ UNCHANGED error
    /\ UNCHANGED << buffer, result, fields, rows, parsedRecords, rowIndex,
                    fieldOffset, csvCells, fieldIndex, emitted >>
    /\ UNCHANGED << asciiDecoder, callsVars, textVars, uiVars >>

\* The highest offset asked for by the reads of the descriptor at offset d
\* (dbf.ts:53, 59, 61, 62, 63), which stop at the first one outside the
\* buffer.
descriptorReach(buf, d) ==
    IF ~byteInside(buf, d) THEN d
    ELSE IF isTerminator(getUint8(buf, d)) THEN d
    ELSE IF ~spanInside(buf, d, NameSize) THEN d + NameSize - 1
    ELSE IF ~byteInside(buf, d + 11) THEN d + 11
    ELSE IF ~byteInside(buf, d + 16) THEN d + 16
    ELSE d + 17

\* The highest offset asked for by new Uint8Array(buffer, o, n); an empty
\* span asks for none.
spanReach(o, n) == IF n = 0 THEN -1 ELSE o + n - 1

\* Whether every read of the descriptor at offset d is inside the buffer.
descriptorInside(buf, d) ==
    /\ byteInside(buf, d)
    /\ \/ isTerminator(getUint8(buf, d))
       \/ /\ spanInside(buf, d, NameSize)
          /\ byteInside(buf, d + 11)
          /\ byteInside(buf, d + 16)
          /\ byteInside(buf, d + 17)

\* A descriptor whose length is read from the byte of the decimal count.
descriptorAtLengthFromDecimal(buf, d, collected) ==
    [ name |-> fieldName(decoderQueue(asciiDecoder, slice(buf, d, NameSize)),
                         collected),
      type |-> <<getUint8(buf, d + 11)>>,
      length |-> getUint8(buf, d + 17),
      decimalCount |-> getUint8(buf, d + 17) ]

\* dbf.ts:59-65
descriptorAt(buf, d, collected) ==
    [ name |-> fieldName(decoderQueue(asciiDecoder, slice(buf, d, NameSize)),
                         collected),
      type |-> <<getUint8(buf, d + 11)>>,
      length |-> getUint8(buf, d + 16),
      decimalCount |-> getUint8(buf, d + 17) ]

\* dbf.ts:52-67, one iteration of the while loop or its exit
ReadDescriptor ==
    /\ pc = "descriptors"
    /\ IF moreDescriptors(descriptorOffset, headerLength)
       THEN /\ maxRead' = Max(maxRead, descriptorReach(buffer, descriptorOffset))
            /\ IF ~descriptorInside(buffer, descriptorOffset)
               THEN /\ Throw(RangeError)
                    /\ IF byteInside(buffer, descriptorOffset)
                          /\ ~isTerminator(getUint8(buffer, descriptorOffset))
                          /\ spanInside(buffer, descriptorOffset, NameSize)
                       THEN /\ asciiDecoder' = decoderAfter(asciiDecoder,
                                   slice(buffer, descriptorOffset, NameSize))
                            /\ buffer' = bufferAfterSanitize(buffer,
                                   descriptorOffset, NameSize)
                       ELSE UNCHANGED << asciiDecoder, buffer >>
                    /\ UNCHANGED << fields, descriptorOffset >>
               ELSE IF isTerminator(getUint8(buffer, descriptorOffset))
               THEN /\ descriptorOffset' = descriptorOffset + 1
                    /\ pc' = "table"
                    /\ UNCHANGED << error, fields, asciiDecoder, buffer >>
               ELSE /\ fields' = Append(fields,
                                    descriptorAt(buffer, descriptorOffset, Len(fields)))
                    /\ asciiDecoder' = decoderAfter(asciiDecoder,
                           slice(buffer, descriptorOffset, NameSize))
                    /\ buffer' = bufferAfterSanitize(buffer, descriptorOffset, NameSize)
                    /\ descriptorOffset' = descriptorOffset + DescriptorSize
                    /\ UNCHANGED << error, pc >>
       ELSE /\ pc' = "table"
            /\ UNCHANGED << error, fields, descriptorOffset, maxRead,
                            asciiDecoder, buffer >>
    /\ UNCHANGED << result, recordCount, headerLength, recordLength,
                    rows, parsedRecords, rowIndex, fieldOffset, csvCells,
                    fieldIndex, emitted >>
    /\ UNCHANGED << callsVars, textVars, uiVars >>

\* dbf.ts:69-81
CheckTable ==
    /\ pc = "table"
    /\ IF noFields(fields)
       THEN Throw(ErrNoFields) /\ UNCHANGED << rows, parsedRecords, rowIndex >>
       ELSE /\ rows' = Append(rows, headerRow(fields))
            /\ IF payloadTruncated(headerLength, recordLength, buffer)
               THEN Throw(ErrTruncated) /\ UNCHANGED << parsedRecords, rowIndex >>
               ELSE /\ parsedRecords' = 0
                    /\ rowIndex' = 0
                    /\ pc' = "records"
                    /\ UNCHANGED error
    /\ UNCHANGED << buffer, result, recordCount, headerLength, recordLength,
                    fields, descriptorOffset, fieldOffset, csvCells,
                    fieldIndex, maxRead, emitted >>
    /\ UNCHANGED << asciiDecoder, callsVars, textVars, uiVars >>

\* dbf.ts:83-95, the head of one iteration of the for loop, or its exit
ScanRecord ==
    /\ pc = "records"
    /\ LET recordOffset == recordOffsetOf(headerLength, rowIndex, recordLength)
       IN  IF rowIndex < recordCount /\ ~recordOutside(recordOffset, recordLength, buffer)
           THEN /\ maxRead' = Max(maxRead, recordOffset)
                /\ IF ~byteInside(buffer, recordOffset)
                   THEN /\ Throw(RangeError)
                        /\ UNCHANGED << rowIndex, fieldOffset, csvCells, fieldIndex >>
                   ELSE IF isDeleted(getUint8(buffer, recordOffset))
                   THEN /\ rowIndex' = rowIndex + 1
                        /\ UNCHANGED << pc, error, fieldOffset, csvCells, fieldIndex >>
                   ELSE /\ fieldOffset' = firstFieldOffset(recordOffset)
                        /\ csvCells' = << >>
                        /\ fieldIndex' = 1
                        /\ pc' = "cells"
                        /\ UNCHANGED << error, rowIndex >>
           ELSE /\ pc' = "return"
                /\ UNCHANGED << error, rowIndex, fieldOffset, csvCells,
                                fieldIndex, maxRead >>
    /\ UNCHANGED << buffer, result, recordCount, headerLength, recordLength,
                    fields, descriptorOffset, rows, parsedRecords, emitted >>
    /\ UNCHANGED << asciiDecoder, callsVars, textVars, uiVars >>

\* dbf.ts:97-108, one iteration of the loop over the fields, or its exit
ReadField ==
    /\ pc = "cells"
    /\ IF fieldIndex <= Len(fields)
       THEN /\ LET length == fields[fieldIndex].length
               IN  IF fieldOutside(fieldOffset, length, buffer)
                   THEN /\ Throw(ErrRecordBeyond)
                        /\ UNCHANGED << fieldOffset, csvCells, fieldIndex, maxRead,
                                        asciiDecoder, buffer >>
                   ELSE IF ~spanInside(buffer, fieldOffset, length)
                   THEN /\ Throw(RangeError)
                        /\ maxRead' = Max(maxRead, spanReach(fieldOffset, length))
                        /\ UNCHANGED << fieldOffset, csvCells, fieldIndex,
                                        asciiDecoder, buffer >>
                   ELSE /\ csvCells' = Append(csvCells,
                               escapeCsv(sanitizeText(decoderQueue(asciiDecoder,
                                   slice(buffer, fieldOffset, length)))))
                        /\ asciiDecoder' = decoderAfter(asciiDecoder,
                               slice(buffer, fieldOffset, length))
                        /\ buffer' = bufferAfterSanitize(buffer, fieldOffset, length)
                        /\ fieldOffset' = fieldOffset + length
                        /\ fieldIndex' = fieldIndex + 1
                        /\ maxRead' = Max(maxRead, spanReach(fieldOffset, length))
                        /\ UNCHANGED << pc, error >>
            /\ UNCHANGED << rows, parsedRecords, rowIndex, emitted >>
       ELSE /\ rows' = Append(rows, join(csvCells, <<COMMA>>))
            /\ parsedRecords' = parsedRecords + 1
            /\ rowIndex' = rowIndex + 1
            /\ emitted' = Append(emitted, rowIndex)
            /\ pc' = "records"
            /\ UNCHANGED << error, fieldOffset, csvCells, fieldIndex, maxRead,
                            asciiDecoder, buffer >>
    /\ UNCHANGED << result, recordCount, headerLength, recordLength,
                    fields, descriptorOffset >>
    /\ UNCHANGED << callsVars, textVars, uiVars >>

\* dbf.ts:111-118
Return ==
    /\ pc = "return"
    /\ result' = << [ csv |-> csvText(rows),
                      recordCount |-> recordCount,
                      parsedRecords |-> parsedRecords,
                      headerLength |-> headerLength,
                      recordLength |-> recordLength,
                      fields |-> fields ] >>
    /\ pc' = "done"
    /\ UNCHANGED << buffer, error, recordCount, headerLength, recordLength,
                    fields, descriptorOffset, rows, parsedRecords, rowIndex,
                    fieldOffset, csvCells, fieldIndex, maxRead, emitted >>
    /\ UNCHANGED << asciiDecoder, callsVars, textVars, uiVars >>

(***************************************************************************)
(* The buffers the call is explored on.  A buffer is laid out as a DBF     *)
(* file: the preamble, the field descriptors, an optional terminator and   *)
(* the records, cut or padded to a chosen length.  The declared header     *)
(* length, record length and record count are chosen independently of     *)
(* what is laid out, so that every check of the function has inputs on    *)
(* both sides of it.                                                       *)
(***************************************************************************)
\* The largest record count declared by a generated buffer, bytes FF FF FF 7F:
\* the largest value of the 32-bit field whose top bit is clear (the model
\* checker's integers are 32-bit signed).
LargeRecordCount == 255 + 255 * 256 + 255 * 65536 + 127 * 16777216

\* Names of generated descriptors: "A", eleven NULs, " ,B" and "N"M".
InputNames == << <<65>>, << >>, <<32, 44, 66>>, <<78, 34, 77>> >>

\* The bytes of generated field contents, read cyclically from a seed.
InputContent == << 65, 32, 44, 0, 34, 66, 13, 10, 128, 160, 42 >>

\* Deletion flags of generated records: live (0x20), deleted (0x2A), and
\* another value.  A pattern gives every record slot its flag.
InputFlagCycle == << 32, 42, 0 >>

InputFlagPatterns ==
    { [i \in 1..MaxRecords |-> 32], [i \in 1..MaxRecords |-> 42] }
    \cup { [i \in 1..MaxRecords |-> InputFlagCycle[((p + i) % 3) + 1]] : p \in 0..2 }

InputPreamble(rc, hl, rl) ==
    [i \in 1..PreambleSize |->
        LET w == i - 1
        IN  IF w = 0 THEN 3
            ELSE IF w = 4 THEN rc % 256
            ELSE IF w = 5 THEN (rc \div 256) % 256
            ELSE IF w = 6 THEN (rc \div 65536) % 256
            ELSE IF w = 7 THEN (rc \div 16777216) % 256
            ELSE IF w = 8 THEN hl % 256
            ELSE IF w = 9 THEN (hl \div 256) % 256
            ELSE IF w = 10 THEN rl % 256
            ELSE IF w = 11 THEN (rl \div 256) % 256
            ELSE 0]

InputDescriptor(name, length) ==
    [i \in 1..DescriptorSize |->
        LET w == i - 1
        IN  IF w < Len(name) THEN name[w + 1]
            ELSE IF w = 11 THEN 67
            ELSE IF w = 16 THEN length
            ELSE IF w = 17 THEN length % 2
            ELSE 0]

RECURSIVE InputTable(_, _)
\* The descriptors of the given field lengths, named from nameSeed on.
InputTable(lengths, nameSeed) ==
    IF lengths = << >> THEN << >>
    ELSE InputDescriptor(InputNames[(nameSeed % Len(InputNames)) + 1], Head(lengths))
         \o InputTable(Tail(lengths), nameSeed + 1)

\* The byte of the data region at offset o: the flag of the record it starts,
\* or a content byte.
InputData(o, hl, rl, flags, seed) ==
    LET rel == o - hl
        content == InputContent[((seed + o) % Len(InputContent)) + 1]
    IN  IF rel < 0 THEN 0
        ELSE IF rl = 0 THEN content
        ELSE IF rel % rl = 0
        THEN (IF rel \div rl < Len(flags) THEN flags[(rel \div rl) + 1] ELSE 32)
        ELSE content

InputBuffer(len, rc, hl, rl, lengths, nameSeed, term, flags, seed) ==
    LET head == InputPreamble(rc, hl, rl) \o InputTable(lengths, nameSeed)
                \o (IF term THEN <<Terminator>> ELSE << >>)
    IN  [i \in 1..len |->
            IF i <= Len(head) THEN head[i]
            ELSE InputData(i - 1, hl, rl, flags, seed)]

RECURSIVE Sum(_)
Sum(lengths) == IF lengths = << >> THEN 0 ELSE Head(lengths) + Sum(Tail(lengths))

InputFieldLengths == UNION {[1..n -> 0..MaxFieldLen] : n \in {1, 2}}

\* Files with a well-formed descriptor table, whose records are scanned: the
\* record length is declared equal to, one below and one above the width of
\* the fields; the record count is declared below, at and above the number
\* of records laid out; the buffer ends at a record boundary or one byte
\* after it.
ScanInputs ==
    { LET hl == PreambleSize + DescriptorSize * Len(lengths) + 1
          rl == Sum(lengths) + delta
      IN  InputBuffer(hl + k * rl + extra, rc, hl, rl, lengths, seed, TRUE, flags, seed) :
        lengths \in InputFieldLengths,
        delta \in {0, 1, 2},
        rc \in {0, 1, MaxRecords, MaxRecords + 1, LargeRecordCount},
        k \in 0..MaxRecords,
        extra \in {0, 1},
        flags \in InputFlagPatterns,
        seed \in {0, 3} }

\* Files whose declared header length and buffer length disagree with the
\* table laid out.
HeaderInputs ==
    { InputBuffer(len, rc, hl, rl, lengths, 0, term, << >>, 1) :
        lengths \in {<< >>, <<1>>, <<1, 2>>},
        term \in BOOLEAN,
        hl \in {0, 31, 32, 33, 40, 50, 64, 65, 96, 97, 300},
        rl \in {0, 1, 3},
        rc \in {0, 1},
        len \in {0, 31, 32, 40, 49, 50, 64, 65, 66, 68, 96, 97, 98, 100} }

\* The smallest well-formed file: one record, a header of 65 bytes, records
\* of 11 bytes; one descriptor NAME of type C and length 10; the terminator
\* at offset 64; one live record holding HELLO padded with spaces.
MinimalBuffer ==
    InputPreamble(1, 65, 11)
    \o InputDescriptor(<<78, 65, 77, 69>>, 10)
    \o <<Terminator>>
    \o <<32>> \o <<72, 69, 76, 76, 79>> \o <<32, 32, 32, 32, 32>>

Inputs == ScanInputs \cup HeaderInputs \cup {MinimalBuffer}

\* The state at the entry of the call, for a given buffer.
Entry ==
    /\ pc = "start"
    /\ error = NoError
    /\ result = << >>
    /\ recordCount = 0
    /\ headerLength = 0
    /\ recordLength = 0
    /\ fields = << >>
    /\ descriptorOffset = 0
    /\ rows = << >>
    /\ parsedRecords = 0
    /\ rowIndex = 0
    /\ fieldOffset = 0
    /\ csvCells = << >>
    /\ fieldIndex = 0
    /\ maxRead = -1
    /\ emitted = << >>

\* No call is suspended and none has ended: the call is the only one made.
NoCalls ==
    /\ other = << >>
    /\ phase = "single"
    /\ outcomes = << >>

\* No text helper is being called on its own.
NoText ==
    /\ arg = << >>
    /\ ret = << >>
    /\ fn = "none"

\* The component as it is first rendered: App.tsx:82-105.
NoUi ==
    /\ scriptTag = FALSE
    /\ govmap = FALSE
    /\ listening = FALSE
    /\ scriptStatus = "idle"
    /\ mapStatus = "idle"
    /\ isFirstRender = TRUE
    /\ createMapCalls = << >>
    /\ dbfFile = << >>
    /\ dbfCsvUrl = << >>
    /\ dbfSummary = << >>
    /\ dbfError = << >>
    /\ dbfBusy = FALSE
    /\ converting = << >>

Init ==
    /\ buffer \in Inputs
    /\ Entry
    /\ asciiDecoder = newDecoder
    /\ NoCalls
    /\ NoText
    /\ NoUi

Next ==
    \/ ValidateHeader
    \/ ReadDescriptor
    \/ CheckTable
    \/ ScanRecord
    \/ ReadField
    \/ Return

Spec == Init /\ [][Next]_vars

(***************************************************************************)
(* Several calls of convertDbfToCsv in one module.  A first call runs      *)
(* alone on a buffer from the module as loaded.  Two calls then run, one   *)
(* on the same bytes and one on a second buffer, their steps interleaved   *)
(* in every order: each call has its own locals, held in a frame while it  *)
(* is suspended, and the two share the module's decoder.  A last call runs *)
(* alone on the first buffer again.  A call of decode is one step: the     *)
(* host runs it to completion.                                             *)
(***************************************************************************)
\* The locals of the running call.
Frame ==
    [ buffer |-> buffer,
      pc |-> pc,
      error |-> error,
      result |-> result,
      recordCount |-> recordCount,
      headerLength |-> headerLength,
      recordLength |-> recordLength,
      fields |-> fields,
      descriptorOffset |-> descriptorOffset,
      rows |-> rows,
      parsedRecords |-> parsedRecords,
      rowIndex |-> rowIndex,
      fieldOffset |-> fieldOffset,
      csvCells |-> csvCells,
      fieldIndex |-> fieldIndex,
      maxRead |-> maxRead,
      emitted |-> emitted ]

\* The locals of a call entered on the given buffer.
NewFrame(buf) ==
    [ buffer |-> buf,
      pc |-> "start",
      error |-> NoError,
      result |-> << >>,
      recordCount |-> 0,
      headerLength |-> 0,
      recordLength |-> 0,
      fields |-> << >>,
      descriptorOffset |-> 0,
      rows |-> << >>,
      parsedRecords |-> 0,
      rowIndex |-> 0,
      fieldOffset |-> 0,
      csvCells |-> << >>,
      fieldIndex |-> 0,
      maxRead |-> -1,
      emitted |-> << >> ]

\* The running call becomes the one with the given locals.
Resume(frame) ==
    /\ buffer' = frame.buffer
    /\ pc' = frame.pc
    /\ error' = frame.error
    /\ result' = frame.result
    /\ recordCount' = frame.recordCount
    /\ headerLength' = frame.headerLength
    /\ recordLength' = frame.recordLength
    /\ fields' = frame.fields
    /\ descriptorOffset' = frame.descriptorOffset
    /\ rows' = frame.rows
    /\ parsedRecords' = frame.parsedRecords
    /\ rowIndex' = frame.rowIndex
    /\ fieldOffset' = frame.fieldOffset
    /\ csvCells' = frame.csvCells
    /\ fieldIndex' = frame.fieldIndex
    /\ maxRead' = frame.maxRead
    /\ emitted' = frame.emitted

\* What a call that has ended gave its caller.
Outcome(frame) == [buffer |-> frame.buffer, error |-> frame.error, result |-> frame.result]

\* The buffers the calls are made on: the minimal file, files of one and of
\* two fields with no record or two, and four files that fail a check.
CallInputs ==
    {MinimalBuffer}
    \cup { LET hl == PreambleSize + DescriptorSize * Len(lengths) + 1
               rl == Sum(lengths) + 1
           IN  InputBuffer(hl + k * rl, MaxRecords, hl, rl, lengths, seed, TRUE,
                           flags, seed) :
             lengths \in {<<1>>, <<2, 1>>},
             k \in {0, 2},
             flags \in {[i \in 1..MaxRecords |-> 32],
                        [i \in 1..MaxRecords |-> InputFlagCycle[(i % 3) + 1]]},
             seed \in {0, 3} }
    \cup { InputBuffer(len, 1, hl, 1, <<1>>, 0, TRUE, << >>, 1) :
             len \in {31, 50}, hl \in {40, 65} }

CallsInit ==
    /\ \E first \in CallInputs, second \in CallInputs :
          /\ buffer = first
          /\ other = <<NewFrame(second)>>
    /\ Entry
    /\ asciiDecoder = newDecoder
    /\ phase = "solo"
    /\ outcomes = << >>
    /\ NoText
    /\ NoUi

\* The first call has ended: the two calls that run together are entered,
\* the one on the first buffer running.
EndSolo ==
    /\ phase = "solo"
    /\ pc = "done"
    /\ outcomes' = <<Outcome(Frame)>>
    /\ Resume(NewFrame(buffer))
    /\ phase' = "pair"
    /\ UNCHANGED << other, asciiDecoder, textVars, uiVars >>

\* The running call is suspended and the other one runs.  The phase records
\* that a call was suspended between its entry and its end.
Switch ==
    /\ phase \in {"pair", "mixed"}
    /\ other[1].pc # "done"
    /\ other' = <<Frame>>
    /\ Resume(other[1])
    /\ phase' = IF pc \in {"start", "done"} THEN phase ELSE "mixed"
    /\ UNCHANGED << outcomes, asciiDecoder, textVars, uiVars >>

\* Both calls have ended: the last call is entered on the first buffer.
EndPair ==
    /\ phase \in {"pair", "mixed"}
    /\ pc = "done"
    /\ other[1].pc = "done"
    /\ outcomes' = outcomes \o <<Outcome(Frame), Outcome(other[1])>>
    /\ Resume(NewFrame(outcomes[1].buffer))
    /\ other' = << >>
    /\ phase' = "again"
    /\ UNCHANGED << asciiDecoder, textVars, uiVars >>

\* The last call has ended.
EndAgain ==
    /\ phase = "again"
    /\ pc = "done"
    /\ outcomes' = Append(outcomes, Outcome(Frame))
    /\ phase' = "end"
    /\ UNCHANGED << callVars, other, asciiDecoder, textVars, uiVars >>

CallsNext ==
    \/ ValidateHeader
    \/ ReadDescriptor
    \/ CheckTable
    \/ ScanRecord
    \/ ReadField
    \/ Return
    \/ EndSolo
    \/ Switch
    \/ EndPair
    \/ EndAgain

CallsSpec == CallsInit /\ [][CallsNext]_vars

\* The buffers termination is checked on: the buffers of CallInputs, files
\* that declare the largest record count over no record, whole records and
\* a cut record, and the files whose header length and buffer length
\* disagree with a table of one record length.
\* Whether the byte at offset w of the buffer is one the layout marks as
\* unused or as metadata only: bytes 0-3 and 12-31 of the preamble, and
\* bytes 11-15 and 17-31 of every descriptor entry that lies inside the
\* header region and the buffer.
IsUnusedByte(buf, w) ==
    \/ w \in 0..3
    \/ w \in 12..31
    \/ /\ w >= 32
       /\ byteLength(buf) >= 32
       /\ LET start == 32 + 32 * ((w - 32) \div 32)
              at == w - start
          IN  /\ start + 32 <= getUint16(buf, 8)
              /\ start + 32 <= byteLength(buf)
              /\ (at \in 11..15 \/ at \in 17..31)

\* The buffer with every unused byte of the chosen part raised by delta.
Variant(buf, part, delta) ==
    [i \in 1..Len(buf) |->
        IF IsUnusedByte(buf, i - 1) /\ ((i <= 32) = (part = "preamble") \/ part = "both")
        THEN (buf[i] + delta) % 256
        ELSE buf[i]]

\* The calls of CallsSpec made on a buffer and on a variant of it.
VariantInit ==
    /\ \E first \in CallInputs, part \in {"preamble", "descriptors", "both"},
          delta \in {1, 13} :
          /\ buffer = first
          /\ other = <<NewFrame(Variant(first, part, delta))>>
    /\ Entry
    /\ asciiDecoder = newDecoder
    /\ phase = "solo"
    /\ outcomes = << >>
    /\ NoText
    /\ NoUi

VariantSpec == VariantInit /\ [][CallsNext]_vars

FairInputs ==
    CallInputs
    \cup { LET hl == PreambleSize + DescriptorSize * Len(lengths) + 1
               rl == Sum(lengths) + 1
           IN  InputBuffer(hl + k * rl + extra, LargeRecordCount, hl, rl, lengths,
                           0, TRUE, flags, 0) :
             lengths \in {<<1>>, <<2, 1>>, <<0>>},
             k \in 0..MaxRecords,
             extra \in {0, 1},
             flags \in InputFlagPatterns }
    \cup { InputBuffer(len, 1, hl, 1, lengths, 0, term, << >>, 1) :
             lengths \in {<< >>, <<1>>, <<1, 2>>},
             term \in BOOLEAN,
             hl \in {32, 33, 50, 64, 65, 96, 97, 300},
             len \in {32, 50, 64, 66, 98, 100} }

FairInit ==
    /\ buffer \in FairInputs
    /\ Entry
    /\ asciiDecoder = newDecoder
    /\ NoCalls
    /\ NoText
    /\ NoUi

\* The call runs to completion: the function is synchronous and has no
\* suspension point, so a step that can be taken is taken.
FairSpec == FairInit /\ [][Next]_vars /\ WF_vars(Next)

(***************************************************************************)
(* The text helpers called on their own: escapeCsv on a string,            *)
(* sanitizeText on bytes, and the header row built from a field named by   *)
(* the bytes and a field that takes the fallback name.                     *)
(***************************************************************************)
\* A letter, the four characters escapeCsv looks for, a space, a NUL, a
\* byte that the decoder maps above 0xFF and the no-break space.
TextAlphabet == {65, COMMA, QUOTE, LF, CR, 32, NUL, 128, 160}

TextInputs == UNION {[1..n -> TextAlphabet] : n \in 0..MaxTextLen}

\* A descriptor of the given name.
TextField(name) == [name |-> name, type |-> <<67>>, length |-> 1, decimalCount |-> 0]

TextInit ==
    /\ buffer = << >>
    /\ Entry
    /\ asciiDecoder = newDecoder
    /\ other = << >>
    /\ phase = "text"
    /\ outcomes = << >>
    /\ arg \in TextInputs
    /\ ret = << >>
    /\ fn = "none"
    /\ NoUi

\* dbf.ts:24-29
CallEscapeCsv ==
    /\ fn = "none"
    /\ ret' = escapeCsv(arg)
    /\ fn' = "escapeCsv"
    /\ UNCHANGED << arg, callVars, asciiDecoder, callsVars, uiVars >>

\* dbf.ts:19-22
CallSanitizeText ==
    /\ fn = "none"
    /\ ret' = sanitizeText(decoderQueue(asciiDecoder, arg))
    /\ asciiDecoder' = decoderAfter(asciiDecoder, arg)
    /\ fn' = "sanitizeText"
    /\ UNCHANGED << arg, callVars, callsVars, uiVars >>

\* dbf.ts:60 and dbf.ts:74
CallHeaderRow ==
    /\ fn = "none"
    /\ ret' = headerRow(<< TextField(fieldName(decoderQueue(asciiDecoder, arg), 0)),
                           TextField(fieldName(<< >>, 1)) >>)
    /\ asciiDecoder' = decoderAfter(asciiDecoder, arg)
    /\ fn' = "headerRow"
    /\ UNCHANGED << arg, callVars, callsVars, uiVars >>

TextNext ==
    \/ CallEscapeCsv
    \/ CallSanitizeText
    \/ CallHeaderRow

TextSpec == TextInit /\ [][TextNext]_vars

(***************************************************************************)
(* The App component: the loading of the GovMap script, the rebuilding of  *)
(* the map and the converter panel.  A handler runs from the event to its  *)
(* first await in one step; the code after the await runs when the promise *)
(* settles, and between the two any other handler may run.  An effect runs *)
(* after the render that follows the change of state it depends on, and a  *)
(* handler may run before it.  The values a handler closes over are the    *)
(* ones of the render it was made in.  The continuation of handleDbfConvert*)
(* calls convertDbfToCsv: the steps of that call are the ones of the       *)
(* function, and nothing of the component runs until the continuation has  *)
(* ended.                                                                  *)
(***************************************************************************)
\* The rebuildMap calls a behaviour makes.
MaxMapCalls == 3

\* The bytes of the files the user picks from: the minimal file, ten zero
\* bytes, a zeroed preamble and the minimal file declaring a header of 200.
DbfContents ==
    { MinimalBuffer,
      [i \in 1..10 |-> 0],
      [i \in 1..PreambleSize |-> 0],
      [MinimalBuffer EXCEPT ![9] = 200] }

\* The files the user picks from: a File has a name and bytes, and two
\* files may have the same name.
DbfFiles ==
    { [name |-> "a.dbf", bytes |-> bytes] : bytes \in DbfContents }
    \cup { [name |-> "b.dbf", bytes |-> MinimalBuffer] }

\* App.tsx:117-155: one call of ensureScript that has passed the test of
\* App.tsx:116, on the script state s.  With the script tag in the document
\* and window.govmap defined, markReady runs at once (App.tsx:128-130);
\* otherwise the status is "loading" and handlers await the load and the
\* error of the script, of the tag found (App.tsx:131-141) or of a new one
\* (App.tsx:145-155).
ensureScript(s) ==
    IF s.scriptTag /\ govmap
    THEN [s EXCEPT !.scriptStatus = "ready"]
    ELSE [scriptStatus |-> "loading", scriptTag |-> TRUE, listening |-> TRUE]

\* The mount effect of App.tsx:158-160.  Under React.StrictMode
\* (main.tsx:9-11) a development build runs the effect twice after the
\* first render, a production build once; both runs call the ensureScript
\* of that render, which sees scriptStatus "idle".
EnsureScript ==
    /\ phase = "ui"
    /\ scriptStatus = "idle"
    /\ \E runs \in {1, 2} :
          LET first == ensureScript([scriptStatus |-> scriptStatus,
                                     scriptTag |-> scriptTag,
                                     listening |-> listening])
              last == IF runs = 1 THEN first ELSE ensureScript(first)
          IN  /\ scriptStatus' = last.scriptStatus
              /\ scriptTag' = last.scriptTag
              /\ listening' = last.listening
    /\ UNCHANGED << govmap, mapStatus, isFirstRender, createMapCalls >>
    /\ UNCHANGED << dbfVars, callVars, asciiDecoder, callsVars, textVars >>

\* App.tsx:134-140 and 150-153: the script failed to load.
ScriptError ==
    /\ phase = "ui"
    /\ listening
    /\ scriptStatus' = "error"
    /\ listening' = FALSE
    /\ UNCHANGED << scriptTag, govmap, mapStatus, isFirstRender, createMapCalls >>
    /\ UNCHANGED << dbfVars, callVars, asciiDecoder, callsVars, textVars >>

\* App.tsx:123-126, as the load handler of the script (App.tsx:132, 149).
\* The script that loaded has defined window.govmap, or has not.
MarkReady ==
    /\ phase = "ui"
    /\ listening
    /\ scriptStatus' = "ready"
    /\ listening' = FALSE
    /\ govmap' \in {govmap, TRUE}
    /\ UNCHANGED << scriptTag, mapStatus, isFirstRender, createMapCalls >>
    /\ UNCHANGED << dbfVars, callVars, asciiDecoder, callsVars, textVars >>

\* App.tsx:169-203: rebuildMap from its entry to the await of createMap.
\* Without window.govmap the call logs and returns (App.tsx:171-174).
rebuildMap ==
    IF govmap
    THEN /\ Len(createMapCalls) < MaxMapCalls
         /\ mapStatus' = "initializing"
         /\ createMapCalls' = Append(createMapCalls, "pending")
    ELSE UNCHANGED << mapStatus, createMapCalls >>

\* App.tsx:215-219: the effect that makes the first rebuildMap call, once
\* scriptStatus is "ready".
FirstRenderEffect ==
    /\ phase = "ui"
    /\ scriptStatus = "ready"
    /\ isFirstRender
    /\ isFirstRender' = FALSE
    /\ rebuildMap
    /\ UNCHANGED << scriptTag, govmap, listening, scriptStatus >>
    /\ UNCHANGED << dbfVars, callVars, asciiDecoder, callsVars, textVars >>

\* App.tsx:223-265: handleApplyConfig, handleLayerAdd, handleLayerRemove and
\* resetToDefaults each call rebuildMap and do not await it.
RebuildMap ==
    /\ phase = "ui"
    /\ rebuildMap
    /\ UNCHANGED << scriptTag, govmap, listening, scriptStatus, isFirstRender >>
    /\ UNCHANGED << dbfVars, callVars, asciiDecoder, callsVars, textVars >>

\* App.tsx:199-206: the createMap promise of a call resolves.
CreateMapResolves ==
    /\ phase = "ui"
    /\ \E call \in 1..Len(createMapCalls) :
          /\ createMapCalls[call] = "pending"
          /\ createMapCalls' = [createMapCalls EXCEPT ![call] = "resolved"]
    /\ mapStatus' = "ready"
    /\ UNCHANGED << scriptTag, govmap, listening, scriptStatus, isFirstRender >>
    /\ UNCHANGED << dbfVars, callVars, asciiDecoder, callsVars, textVars >>

\* App.tsx:207-211: the createMap promise of a call rejects.
CreateMapRejects ==
    /\ phase = "ui"
    /\ \E call \in 1..Len(createMapCalls) :
          /\ createMapCalls[call] = "pending"
          /\ createMapCalls' = [createMapCalls EXCEPT ![call] = "rejected"]
    /\ mapStatus' = "error"
    /\ UNCHANGED << scriptTag, govmap, listening, scriptStatus, isFirstRender >>
    /\ UNCHANGED << dbfVars, callVars, asciiDecoder, callsVars, textVars >>

\* App.tsx:332-341: the file input is never disabled (App.tsx:711-715).
HandleDbfFileChange ==
    /\ phase = "ui"
    /\ \E nextFile \in {<< >>} \cup {<<file>> : file \in DbfFiles} :
          dbfFile' = nextFile
    /\ dbfSummary' = << >>
    /\ dbfError' = << >>
    /\ dbfCsvUrl' = << >>
    /\ UNCHANGED << dbfBusy, converting >>
    /\ UNCHANGED << mapVars, callVars, asciiDecoder, callsVars, textVars >>

\* App.tsx:343-349: the form is submitted with no file selected.  The submit
\* button is disabled while dbfBusy (App.tsx:717).
HandleDbfConvertNoFile ==
    /\ phase = "ui"
    /\ ~ dbfBusy
    /\ dbfFile = << >>
    /\ dbfError' = << "Select a DBF file first." >>
    /\ UNCHANGED << dbfFile, dbfCsvUrl, dbfSummary, dbfBusy, converting >>
    /\ UNCHANGED << mapVars, callVars, asciiDecoder, callsVars, textVars >>

\* App.tsx:343-360: handleDbfConvert from the submit to the await of the bytes
\* of the file it closed over.
HandleDbfConvert ==
    /\ phase = "ui"
    /\ ~ dbfBusy
    /\ dbfFile # << >>
    /\ dbfBusy' = TRUE
    /\ dbfError' = << >>
    /\ dbfSummary' = << >>
    /\ dbfCsvUrl' = << >>
    /\ converting' = dbfFile
    /\ UNCHANGED << dbfFile >>
    /\ UNCHANGED << mapVars, callVars, asciiDecoder, callsVars, textVars >>

\* App.tsx:360-361: the bytes arrive and convertDbfToCsv is entered on them.
DbfBytesArrive ==
    /\ phase = "ui"
    /\ converting # << >>
    /\ Resume(NewFrame(converting[1].bytes))
    /\ phase' = "convert"
    /\ UNCHANGED << other, outcomes >>
    /\ UNCHANGED << asciiDecoder, textVars, uiVars >>

\* App.tsx:361: the steps of the call of convertDbfToCsv.
DbfConvertStep ==
    /\ phase = "convert"
    /\ Next

\* App.tsx:362-376 and 381-383: convertDbfToCsv has returned.  The url is
\* the one of a blob of result.csv, and the file name of the summary is
\* dbfFile.name of the closure.
DbfConvertSucceeds ==
    /\ phase = "convert"
    /\ pc = "done"
    /\ error = NoError
    /\ dbfCsvUrl' = << result[1].csv >>
    /\ dbfSummary' = << [ fileName |-> converting[1].name,
                          declaredRecords |-> result[1].recordCount,
                          parsedRecords |-> result[1].parsedRecords,
                          fields |-> Len(result[1].fields),
                          headerLength |-> result[1].headerLength,
                          recordLength |-> result[1].recordLength ] >>
    /\ dbfBusy' = FALSE
    /\ converting' = << >>
    /\ Resume(NewFrame(<< >>))
    /\ phase' = "ui"
    /\ UNCHANGED << dbfFile, dbfError, other, outcomes >>
    /\ UNCHANGED << mapVars, asciiDecoder, textVars >>

\* App.tsx:377-383: convertDbfToCsv has thrown; what it throws is an Error,
\* and dbfError is its message.
DbfConvertFails ==
    /\ phase = "convert"
    /\ pc = "done"
    /\ error # NoError
    /\ dbfError' = << error >>
    /\ dbfBusy' = FALSE
    /\ converting' = << >>
    /\ Resume(NewFrame(<< >>))
    /\ phase' = "ui"
    /\ UNCHANGED << dbfFile, dbfCsvUrl, dbfSummary, other, outcomes >>
    /\ UNCHANGED << mapVars, asciiDecoder, textVars >>

\* App.tsx:360 and 377-383: the read of the file fails; arrayBuffer rejects
\* with a DOMException, an Error, and dbfError is its message.
DbfReadFails ==
    /\ phase = "ui"
    /\ converting # << >>
    /\ dbfError' = << "NotReadableError" >>
    /\ dbfBusy' = FALSE
    /\ converting' = << >>
    /\ UNCHANGED << dbfFile, dbfCsvUrl, dbfSummary >>
    /\ UNCHANGED << mapVars, callVars, asciiDecoder, callsVars, textVars >>

\* The component as it is mounted: the script tag may be in the document
\* already, and window.govmap defined.
UiInit ==
    /\ buffer = << >>
    /\ Entry
    /\ asciiDecoder = newDecoder
    /\ other = << >>
    /\ phase = "ui"
    /\ outcomes = << >>
    /\ NoText
    /\ scriptTag \in BOOLEAN
    /\ govmap \in BOOLEAN
    /\ listening = FALSE
    /\ scriptStatus = "idle"
    /\ mapStatus = "idle"
    /\ isFirstRender = TRUE
    /\ createMapCalls = << >>
    /\ dbfFile = << >>
    /\ dbfCsvUrl = << >>
    /\ dbfSummary = << >>
    /\ dbfError = << >>
    /\ dbfBusy = FALSE
    /\ converting = << >>

UiNext ==
    \/ EnsureScript
    \/ ScriptError
    \/ MarkReady
    \/ FirstRenderEffect
    \/ RebuildMap
    \/ CreateMapResolves
    \/ CreateMapRejects
    \/ HandleDbfFileChange
    \/ HandleDbfConvertNoFile
    \/ HandleDbfConvert
    \/ DbfBytesArrive
    \/ DbfConvertStep
    \/ DbfConvertSucceeds
    \/ DbfConvertFails
    \/ DbfReadFails

UiSpec == UiInit /\ [][UiNext]_vars

(***************************************************************************)
(* What the claims speak of, computed from the buffer and the header       *)
(* fields rather than from the loops' own counters.                        *)
(***************************************************************************)
Done == pc = "done"

Succeeded == Done /\ result # << >>

\* The header row has been pushed (dbf.ts:74): the header passed its checks
\* and the descriptor scan collected at least one field.
TableRead == rows # << >>

\* The number of whole records between the header and the end of the buffer.
FittingRecords == (byteLength(buffer) - headerLength) \div recordLength

\* The indexes the record scan visits: declared, and wholly inside the buffer.
ScannedIndexes == 0..(Min(recordCount, FittingRecords) - 1)

FlagOf(i) == getUint8(buffer, headerLength + i * recordLength)

LiveIndexes == {i \in ScannedIndexes : FlagOf(i) # DeletedFlag}

RECURSIVE WidthOf(_, _)
\* The sum of the declared lengths of the first n fields.
WidthOf(fs, n) == IF n = 0 THEN 0 ELSE WidthOf(fs, n - 1) + fs[n].length

\* Some field span of record i, laid from its second byte on, ends past the
\* end of the buffer.
Overruns(i) ==
    \E f \in 1..Len(fields) :
        headerLength + i * recordLength + 1 + WidthOf(fields, f) > byteLength(buffer)

Range(seq) == {seq[k] : k \in 1..Len(seq)}

\* The pieces of a CSV text between the separators that stand outside
\* double quotes.
RECURSIVE SplitCsv(_, _, _, _)
SplitCsv(text, sep, piece, quoted) ==
    IF text = << >> THEN <<piece>>
    ELSE IF ~quoted /\ Len(text) >= Len(sep) /\ SubSeq(text, 1, Len(sep)) = sep
    THEN <<piece>> \o SplitCsv(SubSeq(text, Len(sep) + 1, Len(text)), sep, << >>, FALSE)
    ELSE SplitCsv(Tail(text), sep, Append(piece, Head(text)),
                  IF Head(text) = QUOTE THEN ~quoted ELSE quoted)

CsvRows(text) == SplitCsv(text, <<CR, LF>>, << >>, FALSE)

CsvCells(row) == SplitCsv(row, <<COMMA>>, << >>, FALSE)

(***************************************************************************)
(* C1.  Every call ends with a complete result, or with one of the six     *)
(* descriptive errors and no result, and every read it asks for is at an   *)
(* offset inside the buffer.  The descriptor loop reads the name, type,    *)
(* length and decimal count of an entry that starts before the header      *)
(* length without checking that the entry ends inside the buffer, so the   *)
(* call can end with a RangeError instead.                                 *)
(***************************************************************************)
C1_ResultOrDescriptiveError ==
    /\ maxRead < byteLength(buffer)
    /\ Done =>
        \/ error = NoError /\ result # << >>
        \/ error \in DescriptiveErrors /\ result = << >>

(***************************************************************************)
(* C2.  When the declared field lengths sum to more than recordLength - 1, *)
(* the first live record scanned fails the conversion with the 'record     *)
(* extending beyond the file size' error.  The source compares the field   *)
(* cursor with the end of the buffer, not with the end of the record, so   *)
(* a record followed by further bytes is decoded with its last fields      *)
(* read from the bytes after it.                                           *)
(***************************************************************************)
C2_OverwideFieldsFailFirstRecord ==
    (Done /\ fieldIndex >= 1 /\ WidthOf(fields, Len(fields)) > recordLength - 1)
        => (error = ErrRecordBeyond /\ emitted = << >>)

(***************************************************************************)
(* C3.  For a live record inside the buffer the field cursor starts at     *)
(* recordOffset + 1 and advances by the lengths of the fields before it;   *)
(* the conversion fails with the 'record extending beyond the file size'   *)
(* error, and returns nothing, exactly when a field span of the first such *)
(* record that has one ends past the end of the buffer, whatever was       *)
(* decoded before.                                                         *)
(***************************************************************************)
C3_FieldSpanBeyondBufferFails ==
    /\ pc = "cells" =>
        /\ rowIndex \in LiveIndexes
        /\ fieldOffset = headerLength + rowIndex * recordLength + 1
                         + WidthOf(fields, fieldIndex - 1)
    /\ (Done /\ fieldIndex >= 1) =>
        LET bad == {i \in LiveIndexes : Overruns(i)}
        IN  IF bad = {}
            THEN error = NoError
            ELSE /\ error = ErrRecordBeyond
                 /\ result = << >>
                 /\ rowIndex \in bad
                 /\ \A i \in bad : rowIndex <= i
                 /\ Range(emitted) = {i \in LiveIndexes : i < rowIndex}

\* A conversion that fails on a later record after decoding an earlier one.
C3_Witness ==
    Done /\ error = ErrRecordBeyond /\ parsedRecords >= 1 /\ rowIndex >= 1

(***************************************************************************)
(* C4.  A successful conversion parses no more records than declared, and  *)
(* exactly the records among the first min(recordCount, floor((length -    *)
(* headerLength) / recordLength)) whose deletion flag is not 0x2A.         *)
(***************************************************************************)
C4_ParsedRecordsCount ==
    Succeeded =>
        LET r == result[1]
            hl == getUint16(buffer, 8)
            rl == getUint16(buffer, 10)
            fit == (byteLength(buffer) - hl) \div rl
            n == Min(getUint32(buffer, 4), fit)
        IN  /\ r.parsedRecords <= r.recordCount
            /\ r.recordCount = getUint32(buffer, 4)
            /\ r.parsedRecords =
                 Cardinality({i \in 0..(n - 1) : getUint8(buffer, hl + i * rl) # 42})

\* A success with a deleted record and a tail cut off by the end of the
\* buffer.
C4_Witness ==
    /\ Succeeded
    /\ result[1].parsedRecords >= 1
    /\ FittingRecords < result[1].recordCount
    /\ result[1].parsedRecords < FittingRecords

(***************************************************************************)
(* C5.  In a successful conversion the CSV text has parsedRecords rows     *)
(* after the header row, and the header row and every data row have        *)
(* fields.length cells.                                                    *)
(***************************************************************************)
C5_CsvShape ==
    Succeeded =>
        LET r == result[1]
            rs == CsvRows(r.csv)
        IN  /\ Len(rs) - 1 = r.parsedRecords
            /\ \A k \in 1..Len(rs) : Len(CsvCells(rs[k])) = Len(r.fields)

\* A success with two fields, two data rows and a quoted cell.
C5_Witness ==
    /\ Succeeded
    /\ Len(result[1].fields) = 2
    /\ result[1].parsedRecords = 2
    /\ \E k \in 2..Len(rows) : includes(rows[k], QUOTE) /\ includes(rows[k], COMMA)

(***************************************************************************)
(* C6.  A record whose deletion flag is 0x2A yields no row and is not      *)
(* counted, the scan goes on after it, and a record with any other flag    *)
(* is live: the rows emitted so far come from exactly the records before   *)
(* the scan position whose flag is not 0x2A, in order, one row and one     *)
(* count each.                                                             *)
(***************************************************************************)
C6_DeletedRecordsSkipped ==
    TableRead =>
        /\ Range(emitted) = {i \in 0..(rowIndex - 1) : FlagOf(i) # DeletedFlag}
        /\ \A j, k \in 1..Len(emitted) : j < k => emitted[j] < emitted[k]
        /\ parsedRecords = Len(emitted)
        /\ Len(rows) = 1 + Len(emitted)

\* A success in which a deleted record was passed over, a later record was
\* emitted, and a record whose flag is neither 0x20 nor 0x2A was emitted.
C6_Witness ==
    /\ Succeeded
    /\ \E i \in 0..(rowIndex - 1) :
          /\ FlagOf(i) = DeletedFlag
          /\ \E k \in 1..Len(emitted) : emitted[k] > i
    /\ \E k \in 1..Len(emitted) : FlagOf(emitted[k]) \notin {32, DeletedFlag}

(***************************************************************************)
(* C7.  As claimed: whenever the header declares more records than fit in  *)
(* the buffer, the conversion succeeds, the scan having stopped at the     *)
(* first record that does not fit.                                         *)
(***************************************************************************)
C7_TruncatedTailTolerated ==
    (Done /\ TableRead /\ recordCount > FittingRecords) =>
        /\ error = NoError
        /\ result # << >>
        /\ rowIndex = FittingRecords

(***************************************************************************)
(* C7, amended.  When the header declares more records than fit in the     *)
(* buffer, at least one whole record fits, and no field span of a live     *)
(* fitting record ends past the buffer, the conversion succeeds: the scan  *)
(* stops at the first index that does not fit, no record from that index   *)
(* on is emitted, and parsedRecords counts the live records before it.     *)
(***************************************************************************)
C7_TruncatedTailToleratedAmended ==
    (/\ Done
     /\ TableRead
     /\ recordCount > FittingRecords
     /\ FittingRecords >= 1
     /\ \A i \in LiveIndexes : ~Overruns(i)) =>
        /\ error = NoError
        /\ result # << >>
        /\ rowIndex = FittingRecords
        /\ headerLength + (rowIndex + 1) * recordLength > byteLength(buffer)
        /\ \A k \in 1..Len(emitted) : emitted[k] < FittingRecords
        /\ result[1].parsedRecords =
             Cardinality({i \in 0..(FittingRecords - 1) : FlagOf(i) # DeletedFlag})

\* A success whose header declares more records than the buffer holds, with
\* a row emitted.
C7_Witness ==
    /\ Succeeded
    /\ recordCount > FittingRecords
    /\ FittingRecords >= 1
    /\ parsedRecords >= 1
    /\ byteLength(buffer) > headerLength + FittingRecords * recordLength

(***************************************************************************)
(* C8.  With a valid header and field table, a buffer with no room for one *)
(* whole record after the header fails with the 'payload truncated' error, *)
(* also when the declared record count is 0.                               *)
(***************************************************************************)
C8_PayloadTruncated ==
    (Done /\ TableRead /\ headerLength + recordLength > byteLength(buffer)) =>
        (error = ErrTruncated /\ result = << >>)

\* The payload error on a file that declares no record.
C8_Witness ==
    Done /\ error = ErrTruncated /\ getUint32(buffer, 4) = 0

(***************************************************************************)
(* C9.  A buffer shorter than 32 bytes fails with the 'too small' error    *)
(* whatever it holds, and no byte of it is read.                           *)
(***************************************************************************)
C9_TooSmall ==
    byteLength(buffer) < 32 =>
        /\ pc \in {"start", "done"}
        /\ maxRead = -1
        /\ Done => (error = ErrTooSmall /\ result = << >>)

\* The error on a buffer of 31 bytes.
C9_Witness ==
    Done /\ byteLength(buffer) = 31 /\ error = ErrTooSmall

(***************************************************************************)
(* C10.  A buffer of at least 32 bytes whose 16-bit header length at       *)
(* offset 8 or 16-bit record length at offset 10 is 0 fails with the       *)
(* 'malformed header' error.                                               *)
(***************************************************************************)
C10_MalformedHeader ==
    (/\ Done
     /\ byteLength(buffer) >= 32
     /\ (getUint16(buffer, 8) = 0 \/ getUint16(buffer, 10) = 0)) =>
        (error = ErrMalformed /\ result = << >>)

\* The error on a header whose record length alone is zero.
C10_Witness ==
    /\ Done
    /\ error = ErrMalformed
    /\ getUint16(buffer, 8) # 0
    /\ getUint16(buffer, 10) = 0

(***************************************************************************)
(* C11.  On a buffer of at least 32 bytes whose header length and record   *)
(* length are both nonzero, a header length greater than the byte length   *)
(* of the buffer fails with the 'header larger than the file' error before *)
(* anything after the preamble is read, and a header length equal to or    *)
(* below the byte length passes that check.                                *)
(***************************************************************************)
C11_HeaderLargerThanFile ==
    (/\ byteLength(buffer) >= 32
     /\ getUint16(buffer, 8) # 0
     /\ getUint16(buffer, 10) # 0) =>
        LET hl == getUint16(buffer, 8)
        IN  /\ hl > byteLength(buffer) =>
                  /\ pc \in {"start", "done"}
                  /\ maxRead <= 11
                  /\ Done => (error = ErrHeaderTooLarge /\ result = << >>)
            /\ hl <= byteLength(buffer) =>
                  error # ErrHeaderTooLarge

\* The error on a header length one above the byte length of the buffer.
C11_Witness ==
    /\ Done
    /\ error = ErrHeaderTooLarge
    /\ byteLength(buffer) >= 32
    /\ getUint16(buffer, 8) = byteLength(buffer) + 1

(***************************************************************************)
(* C12.  On a buffer that passes the checks of the header, no descriptor   *)
(* is collected exactly when the header length is at most 32 or the byte   *)
(* at offset 32 is 0x0D, and the call then fails with the 'does not define *)
(* any fields' error; a result always has at least one field.              *)
(***************************************************************************)
C12_NoFields ==
    /\ (/\ byteLength(buffer) >= 32
         /\ getUint16(buffer, 8) # 0
         /\ getUint16(buffer, 10) # 0
         /\ getUint16(buffer, 8) <= byteLength(buffer)) =>
            LET empty == \/ getUint16(buffer, 8) <= 32
                         \/ getUint8(buffer, 32) = Terminator
            IN  /\ (Done /\ empty) => (error = ErrNoFields /\ result = << >>)
                /\ error = ErrNoFields => empty
    /\ error = ErrNoFields => fields = << >>
    /\ Succeeded => Len(result[1].fields) >= 1

\* The error on a table whose first entry is the terminator.
C12_Witness ==
    /\ Done
    /\ error = ErrNoFields
    /\ getUint16(buffer, 8) > 32
    /\ getUint8(buffer, 32) = Terminator

(***************************************************************************)
(* C14.  The minimal file of 76 bytes (record count 1, header length 65,   *)
(* record length 11, one descriptor NAME of type C and length 10, the      *)
(* terminator at offset 64, one record of flag 0x20 and HELLO padded with  *)
(* spaces) converts to the text NAME CR LF HELLO, with parsedRecords 1,    *)
(* recordCount 1 and exactly one field.                                    *)
(***************************************************************************)
C14_MinimalFile ==
    (buffer = MinimalBuffer /\ Done) =>
        /\ byteLength(buffer) = 76
        /\ error = NoError
        /\ result =
             << [ csv |-> <<78, 65, 77, 69, 13, 10, 72, 69, 76, 76, 79>>,
                  recordCount |-> 1,
                  parsedRecords |-> 1,
                  headerLength |-> 65,
                  recordLength |-> 11,
                  fields |-> << [ name |-> <<78, 65, 77, 69>>,
                                  type |-> <<67>>,
                                  length |-> 10,
                                  decimalCount |-> 0 ] >> ] >>

\* The call on the minimal file has returned.
C14_Witness == buffer = MinimalBuffer /\ Succeeded /\ parsedRecords = 1

(***************************************************************************)
(* C17.  Every field collected has a non-empty name: the 11 name bytes of  *)
(* its entry decoded, stripped of NULs and trimmed, or, when that is       *)
(* empty, FIELD_ followed by the 1-based position of the field.            *)
(***************************************************************************)
C17_FieldNames ==
    /\ \A i \in 1..Len(fields) :
          LET raw == sanitizeText(slice(buffer, 32 + 32 * (i - 1), 11))
          IN  /\ fields[i].name # << >>
              /\ raw # << >> => fields[i].name = raw
              /\ raw = << >> => fields[i].name = <<70, 73, 69, 76, 68, 95, 48 + i>>
    /\ Succeeded => result[1].fields = fields

\* A result whose second field was named FIELD_2 next to a first field that
\* kept its own name.
C17_Witness ==
    /\ Succeeded
    /\ Len(fields) = 2
    /\ fields[1].name = <<65>>
    /\ fields[2].name = <<70, 73, 69, 76, 68, 95, 50>>

\* The text of record i: its cells, each the sanitized and escaped bytes of
\* its field, joined with commas.
ExpectedRow(i) ==
    join([f \in 1..Len(fields) |->
            escapeCsv(sanitizeText(slice(buffer,
                headerLength + i * recordLength + 1 + WidthOf(fields, f - 1),
                fields[f].length)))],
         <<COMMA>>)

RECURSIVE ExpectedTail(_)
\* The text after the header row for the records from index i on: CR LF and
\* the row of every scanned record that is not deleted, in index order.
ExpectedTail(i) ==
    IF i \notin ScannedIndexes THEN << >>
    ELSE (IF FlagOf(i) = DeletedFlag THEN << >> ELSE <<CR, LF>> \o ExpectedRow(i))
         \o ExpectedTail(i + 1)

EndsWithTerminator(text) ==
    Len(text) >= 2 /\ SubSeq(text, Len(text) - 1, Len(text)) = <<CR, LF>>

(***************************************************************************)
(* C18 as stated.  The text of a result is the header row followed by the  *)
(* rows of the scanned records that are not deleted, in increasing index   *)
(* order, joined with CR LF, and it has no trailing line terminator; it is *)
(* the header row alone when no record is emitted.  A last row that is     *)
(* empty (a single field whose value sanitizes to nothing) leaves the text *)
(* ending in the CR LF that separates it from the row before.              *)
(***************************************************************************)
C18_CsvText ==
    Succeeded =>
        /\ result[1].csv = headerRow(fields) \o ExpectedTail(0)
        /\ emitted = << >> => result[1].csv = headerRow(fields)
        /\ ~EndsWithTerminator(result[1].csv)

(***************************************************************************)
(* C18 amended.  The text of a result is the header row followed by the    *)
(* rows of the scanned records that are not deleted, in increasing index   *)
(* order, each preceded by CR LF, and nothing follows the last row; it is  *)
(* the header row alone when no record is emitted.  The text ends in CR LF *)
(* only when the file has a single field and the last row emitted is       *)
(* empty.                                                                  *)
(***************************************************************************)
C18_CsvTextAmended ==
    Succeeded =>
        /\ result[1].csv = headerRow(fields) \o ExpectedTail(0)
        /\ emitted = << >> => result[1].csv = headerRow(fields)
        /\ EndsWithTerminator(result[1].csv) =>
              /\ Len(fields) = 1
              /\ emitted # << >>
              /\ ExpectedRow(emitted[Len(emitted)]) = << >>

\* A result of two data rows, the first of them from the record after a
\* deleted one.
C18_Witness ==
    /\ Succeeded
    /\ Len(emitted) = 2
    /\ emitted[1] = 1
    /\ FlagOf(0) = DeletedFlag

(***************************************************************************)
(* C20.  The descriptor scan starts at offset 32 and advances by entries   *)
(* of 32 bytes; every field comes from an entry that starts before the     *)
(* header length, has no terminator at or before it, and gives the field   *)
(* its type, length and decimal count; the scan stops at the first entry   *)
(* whose first byte is 0x0D, whatever the header length, or when the       *)
(* offset reaches the header length, so a table that ends exactly at the   *)
(* header length needs no terminator.                                      *)
(***************************************************************************)
C20_DescriptorScan ==
    LET stop == 32 + 32 * Len(fields)
    IN  /\ pc = "descriptors" => descriptorOffset = stop
        /\ \A i \in 1..Len(fields) :
              LET entry == 32 + 32 * (i - 1)
              IN  /\ entry < headerLength
                  /\ getUint8(buffer, entry) # Terminator
                  /\ fields[i].type = <<getUint8(buffer, entry + 11)>>
                  /\ fields[i].length = getUint8(buffer, entry + 16)
                  /\ fields[i].decimalCount = getUint8(buffer, entry + 17)
        /\ (pc \in {"table", "records", "cells", "return"}
             \/ (Done /\ (error = ErrNoFields \/ TableRead))) =>
              IF stop < headerLength
              THEN /\ getUint8(buffer, stop) = Terminator
                   /\ descriptorOffset = stop + 1
              ELSE descriptorOffset = stop

\* A result from a table of two entries that ends at the header length
\* without a terminator.
C20_Witness ==
    /\ Succeeded
    /\ Len(fields) = 2
    /\ headerLength = 96
    /\ descriptorOffset = headerLength

(***************************************************************************)
(* C16.  No step of the call writes to the input buffer: after every step, *)
(* whether it ends the call with a result or an error or not at all, every *)
(* byte of the buffer has the value it had before.                         *)
(***************************************************************************)
C16_BufferNeverWritten == [][buffer' = buffer]_vars

\* A result whose first cell was sanitized from bytes that hold a NUL, next
\* to a name padded with NULs.
C16_Witness ==
    /\ Succeeded
    /\ parsedRecords >= 1
    /\ fields[1].length >= 1
    /\ \E o \in 1..fields[1].length :
          getUint8(buffer, headerLength + emitted[1] * recordLength + o) = NUL

\* The value holds one of the four characters that call for a wrapper.
Special(value) ==
    \E i \in 1..Len(value) : value[i] \in {COMMA, QUOTE, LF, CR}

\* The number of double quotes of the value before position i.
QuotesBefore(value, i) == Cardinality({j \in 1..(i - 1) : value[j] = QUOTE})

\* The body is the value with every double quote written twice and every
\* other character kept, in order.
IsDoubled(body, value) ==
    /\ Len(body) = Len(value) + QuotesBefore(value, Len(value) + 1)
    /\ \A i \in 1..Len(value) :
          /\ body[i + QuotesBefore(value, i)] = value[i]
          /\ value[i] = QUOTE => body[i + QuotesBefore(value, i) + 1] = QUOTE

\* The escaped text is the value between double quotes with its quotes
\* doubled when the value is special, and the value itself otherwise.
IsEscapingOf(escaped, value) ==
    IF Special(value)
    THEN /\ Len(escaped) >= 2
         /\ escaped[1] = QUOTE
         /\ escaped[Len(escaped)] = QUOTE
         /\ IsDoubled(SubSeq(escaped, 2, Len(escaped) - 1), value)
    ELSE escaped = value

(***************************************************************************)
(* C13.  escapeCsv wraps a value in double quotes exactly when it holds a  *)
(* comma, a double quote, a line feed or a carriage return, doubling every *)
(* double quote of it, and returns any other value unchanged; the names of *)
(* the header row are escaped by the same rule and joined with commas.     *)
(***************************************************************************)
C13_EscapeCsv ==
    /\ fn = "escapeCsv" => IsEscapingOf(ret, arg)
    /\ fn = "headerRow" =>
          LET rest == <<COMMA, 70, 73, 69, 76, 68, 95, 50>>
              cut == Len(ret) - Len(rest)
          IN  /\ cut >= 1
              /\ SubSeq(ret, cut + 1, Len(ret)) = rest
              /\ IsEscapingOf(SubSeq(ret, 1, cut), fieldName(arg, 0))

\* escapeCsv has returned on a value with a double quote and a carriage
\* return: the value between quotes, one character longer for the doubling.
C13_Witness ==
    /\ fn = "escapeCsv"
    /\ includes(arg, QUOTE)
    /\ includes(arg, CR)
    /\ Len(ret) = Len(arg) + 3

(***************************************************************************)
(* C15.  Two calls on identical bytes end alike, with equal results or the *)
(* same error, whatever calls ran between them: the call made alone on the *)
(* module as loaded, and the calls made on the same bytes after other      *)
(* conversions have run.                                                   *)
(***************************************************************************)
C15_Deterministic ==
    /\ \A i \in 1..Len(outcomes) : \A j \in 1..Len(outcomes) :
          outcomes[i].buffer = outcomes[j].buffer =>
              /\ outcomes[i].error = outcomes[j].error
              /\ outcomes[i].result = outcomes[j].result
    /\ (phase = "again" /\ Done) =>
          /\ buffer = outcomes[1].buffer
          /\ error = outcomes[1].error
          /\ result = outcomes[1].result

\* The last call has returned a result with a data row, after a call on
\* other bytes that also decoded cells.
C15_Witness ==
    /\ phase = "again"
    /\ Succeeded
    /\ parsedRecords >= 1
    /\ outcomes[3].buffer # buffer
    /\ outcomes[3].result # << >>
    /\ outcomes[3].result[1].parsedRecords >= 1

(***************************************************************************)
(* C19.  Two calls on separate buffers whose steps are interleaved do not  *)
(* interfere: a call that ends while the two run together ends as the call *)
(* made alone on the same bytes did, and the decoder they share holds      *)
(* nothing from one call of decode to the next.                            *)
(***************************************************************************)
C19_NoInterference ==
    /\ asciiDecoder = newDecoder
    /\ phase \in {"pair", "mixed"} =>
          /\ (Done /\ buffer = outcomes[1].buffer) =>
                (error = outcomes[1].error /\ result = outcomes[1].result)
          /\ (other[1].pc = "done" /\ other[1].buffer = outcomes[1].buffer) =>
                /\ other[1].error = outcomes[1].error
                /\ other[1].result = outcomes[1].result

\* Two calls on different bytes, each suspended at least once between its
\* entry and its end, have both returned results with data rows.
C19_Witness ==
    /\ phase = "mixed"
    /\ Succeeded
    /\ parsedRecords >= 1
    /\ other[1].pc = "done"
    /\ other[1].result # << >>
    /\ other[1].parsedRecords >= 1
    /\ other[1].buffer # buffer

(***************************************************************************)
(* C21.  The records are read from the declared header length on, not from *)
(* the byte after the terminator: the cells of the record of index i are   *)
(* read from offset headerLength + i * recordLength + 1 on, and each data  *)
(* row holds the bytes found there, also when the terminator stands before *)
(* offset headerLength - 1.                                                *)
(***************************************************************************)
C21_DataStartsAtHeaderLength ==
    /\ pc = "cells" =>
          /\ recordOutside(getUint16(buffer, 8) + rowIndex * getUint16(buffer, 10),
                           getUint16(buffer, 10), buffer) = FALSE
          /\ fieldOffset = getUint16(buffer, 8) + rowIndex * getUint16(buffer, 10)
                              + 1 + WidthOf(fields, fieldIndex - 1)
    /\ \A k \in 1..Len(emitted) :
          /\ k + 1 <= Len(rows)
          /\ rows[k + 1] =
                join([f \in 1..Len(fields) |->
                        escapeCsv(sanitizeText(slice(buffer,
                            getUint16(buffer, 8) + emitted[k] * getUint16(buffer, 10)
                                + 1 + WidthOf(fields, f - 1),
                            fields[f].length)))],
                     <<COMMA>>)

\* A result with a data row from a file whose terminator stands more than
\* one byte before the header length.
C21_Witness ==
    /\ Succeeded
    /\ parsedRecords >= 1
    /\ descriptorOffset < headerLength
    /\ getUint8(buffer, descriptorOffset - 1) = Terminator

\* The structural checks an input violates, in the order of the claim, each
\* computed from the bytes of the buffer wherever the bytes it speaks of
\* exist; the last one speaks of the fields of the table and of the records
\* the scan visits.
ViolatedChecks ==
    LET len == byteLength(buffer)
        hl == getUint16(buffer, 8)
        rl == getUint16(buffer, 10)
    IN  << len < 32,
           len >= 12 /\ (hl = 0 \/ rl = 0),
           len >= 12 /\ hl > len,
           len >= 12 /\ (hl <= 32 \/ (len > 32 /\ getUint8(buffer, 32) = Terminator)),
           len >= 12 /\ hl + rl > len,
           /\ TableRead
           /\ recordLength # 0
           /\ \E i \in LiveIndexes : Overruns(i) >>

CheckErrors ==
    << ErrTooSmall, ErrMalformed, ErrHeaderTooLarge, ErrNoFields, ErrTruncated,
       ErrRecordBeyond >>

\* The error of the first violated check, or NoError when none is violated.
FirstViolated ==
    LET violated == {k \in 1..6 : ViolatedChecks[k]}
    IN  IF violated = {} THEN NoError
        ELSE CheckErrors[CHOOSE k \in violated : \A j \in violated : k <= j]

(***************************************************************************)
(* C22.  A call on an input that violates several structural checks ends   *)
(* with the error of the first one violated in the order: too small,       *)
(* malformed header, header larger than the file, no fields, payload       *)
(* truncated, record beyond the file; and a call that ends otherwise than  *)
(* with a RangeError of the descriptor reads ends with the error of the    *)
(* first violated check, or with a result when none is violated.           *)
(***************************************************************************)
C22_ErrorOrder ==
    Done =>
        /\ Cardinality({k \in 1..6 : ViolatedChecks[k]}) >= 2 => error = FirstViolated
        /\ error # RangeError => error = FirstViolated

\* The 'no fields' error on a file with no descriptor and no room for one
\* record.
C22_Witness ==
    /\ Done
    /\ error = ErrNoFields
    /\ ViolatedChecks[4]
    /\ ViolatedChecks[5]
    /\ ~ViolatedChecks[2]

\* The iterations of the descriptor loop entered so far: one for every
\* entry collected, one for the terminator, one for an entry whose reads
\* ended the call.
DescriptorIterations ==
    IF descriptorOffset < 32 THEN 0
    ELSE (descriptorOffset - 32 + 31) \div 32
         + (IF Done /\ error = RangeError /\ ~TableRead THEN 1 ELSE 0)

\* The iterations of the record loop entered so far: one for every record
\* index passed, one for the record whose cells are being read or whose
\* cells ended the call, one for the record that ended the scan.
RecordIterations ==
    IF ~TableRead THEN 0
    ELSE IF pc = "records" THEN rowIndex
    ELSE IF pc = "cells" THEN rowIndex + 1
    ELSE IF error \in {ErrRecordBeyond, RangeError} THEN rowIndex + 1
    ELSE IF error = ErrTruncated THEN 0
    ELSE IF rowIndex < recordCount THEN rowIndex + 1
    ELSE rowIndex

(***************************************************************************)
(* C23.  Every call ends, and its loops are bounded by the buffer and not  *)
(* by the declared record count: the record loop is entered at most        *)
(* min(recordCount, floor((bufferLength - headerLength) / recordLength)    *)
(* + 1) times and the descriptor loop at most ceil((headerLength - 32) /   *)
(* 32) times.                                                              *)
(***************************************************************************)
C23_TerminatesBounded ==
    /\ [](/\ TableRead =>
                RecordIterations <= Min(recordCount, FittingRecords + 1)
          /\ pc # "start" /\ headerLength >= 32 =>
                DescriptorIterations <= (headerLength - 32 + 31) \div 32)
    /\ <>Done

\* A result from a header that declares the largest record count over a
\* buffer that holds a record or two.
C23_Witness ==
    /\ Succeeded
    /\ recordCount = LargeRecordCount
    /\ parsedRecords >= 1
    /\ rowIndex <= MaxRecords

(***************************************************************************)
(* C26.  When the declared field lengths sum to at most recordLength - 1,  *)
(* the call never ends with the 'record extending beyond the file size'    *)
(* error: every record that passes the whole-record check has its field    *)
(* spans inside its own span, from recordOffset + 1 up to recordOffset +   *)
(* recordLength, so the error arises only when the widths overrun the      *)
(* record length.                                                          *)
(***************************************************************************)
C26_FittingFieldsNeverOverrun ==
    /\ (TableRead /\ WidthOf(fields, Len(fields)) <= recordLength - 1) =>
          /\ error # ErrRecordBeyond
          /\ pc = "cells" =>
                LET recordOffset == headerLength + rowIndex * recordLength
                IN  /\ recordOffset + recordLength <= byteLength(buffer)
                    /\ fieldOffset >= recordOffset + 1
                    /\ \A f \in fieldIndex..Len(fields) :
                          fieldOffset + WidthOf(fields, f)
                              - WidthOf(fields, fieldIndex - 1)
                            <= recordOffset + recordLength
    /\ error = ErrRecordBeyond => WidthOf(fields, Len(fields)) > recordLength - 1

\* A result whose fields fill their records, from a buffer that ends with
\* its last record.
C26_Witness ==
    /\ Succeeded
    /\ parsedRecords >= 1
    /\ WidthOf(fields, Len(fields)) >= 1
    /\ WidthOf(fields, Len(fields)) = recordLength - 1
    /\ byteLength(buffer) = headerLength + rowIndex * recordLength

(***************************************************************************)
(* C27.  Every descriptor collected lies inside the header region: an      *)
(* entry collected at offset d has d + 32 <= headerLength.  The loop only  *)
(* asks that an entry start before the header length, so with a header     *)
(* length that is not 32 + 32k or 32 + 32k + 1 the last entry is decoded   *)
(* from bytes of the data region.                                          *)
(***************************************************************************)
C27_DescriptorsInsideHeader ==
    \A i \in 1..Len(fields) : 32 + 32 * i <= headerLength

(***************************************************************************)
(* C25.  sanitizeText maps every byte of the span to one character,        *)
(* removes every NUL wherever it stands, and trims the whitespace at both  *)
(* ends: what it returns is the characters of the bytes that are not NUL,  *)
(* from the first to the last that is not whitespace, in order; it holds   *)
(* no NUL, starts and ends with no whitespace, and removing NULs and       *)
(* trimming it again leaves it unchanged.                                  *)
(***************************************************************************)
C25_SanitizeText ==
    fn = "sanitizeText" =>
        LET chars == decode(arg)
            solid == {i \in 1..Len(arg) : arg[i] # NUL /\ ~IsWhiteSpace(chars[i])}
        IN  /\ Len(chars) = Len(arg)
            /\ \A i \in 1..Len(arg) :
                  IF arg[i] < 128 \/ arg[i] > 159 THEN chars[i] = arg[i]
                  ELSE chars[i] >= 128
            /\ \A i \in 1..Len(ret) : ret[i] # NUL
            /\ ret # << >> =>
                  (~IsWhiteSpace(ret[1]) /\ ~IsWhiteSpace(ret[Len(ret)]))
            /\ solid = {} => ret = << >>
            /\ solid # {} =>
                  LET lo == CHOOSE i \in solid : \A j \in solid : i <= j
                      hi == CHOOSE i \in solid : \A j \in solid : j <= i
                      inner == {i \in lo..hi : arg[i] # NUL}
                  IN  /\ Len(ret) = Cardinality(inner)
                      /\ \A i \in inner :
                            ret[Cardinality({j \in inner : j <= i})] = chars[i]
            /\ trim(removeNul(ret)) = ret

\* sanitizeText has returned AA on the bytes A, NUL, A.
C25_Witness ==
    /\ fn = "sanitizeText"
    /\ arg = <<65, NUL, 65>>
    /\ ret = <<65, 65>>

RECURSIVE HalveQuotes(_)
\* The text with every pair of adjacent double quotes replaced by one.
HalveQuotes(text) ==
    IF text = << >> THEN << >>
    ELSE IF Len(text) >= 2 /\ text[1] = QUOTE /\ text[2] = QUOTE
    THEN <<QUOTE>> \o HalveQuotes(SubSeq(text, 3, Len(text)))
    ELSE <<Head(text)>> \o HalveQuotes(Tail(text))

\* The escaping undone: the surrounding quotes stripped when present, and
\* the doubled quotes halved.
Unescape(escaped) ==
    IF Len(escaped) >= 2 /\ escaped[1] = QUOTE /\ escaped[Len(escaped)] = QUOTE
    THEN HalveQuotes(SubSeq(escaped, 2, Len(escaped) - 1))
    ELSE escaped

(***************************************************************************)
(* C28.  The escaping loses nothing: undoing the escaping of escapeCsv(v)  *)
(* gives v back, no other value of up to MaxTextLen characters (drawn from *)
(* the characters of the escaped text, the only ones a value escaping to   *)
(* it can hold) escapes to the same text, an unwrapped escaped text holds  *)
(* no comma, double quote, CR or LF, and a row joined with commas splits   *)
(* at the commas outside quotes into exactly its cells, each of which      *)
(* unescapes to its value.                                                 *)
(***************************************************************************)
C28_EscapingLossless ==
    /\ fn = "escapeCsv" =>
          /\ Unescape(ret) = arg
          /\ \A v \in UNION {[1..n -> Range(ret)] : n \in 0..MaxTextLen} :
                escapeCsv(v) = ret => v = arg
          /\ (ret = << >> \/ ret[1] # QUOTE) =>
                \A i \in 1..Len(ret) : ret[i] \notin {COMMA, QUOTE, CR, LF}
    /\ fn = "headerRow" =>
          LET cells == CsvCells(ret)
          IN  /\ Len(cells) = 2
              /\ Unescape(cells[1]) = fieldName(arg, 0)
              /\ Unescape(cells[2]) = fieldName(<< >>, 1)

\* escapeCsv has returned on a value of quotes and a comma.
C28_Witness ==
    /\ fn = "escapeCsv"
    /\ arg = <<QUOTE, COMMA, QUOTE>>
    /\ ret = <<QUOTE, QUOTE, QUOTE, COMMA, QUOTE, QUOTE, QUOTE>>

\* The buffer with its unused bytes blanked.
UsedBytes(buf) == [i \in 1..Len(buf) |-> IF IsUnusedByte(buf, i - 1) THEN 0 ELSE buf[i]]

\* Two outcomes agree on all but the type and decimal count of the fields.
SameButMetadata(a, b) ==
    /\ a.error = b.error
    /\ Len(a.result) = Len(b.result)
    /\ a.result # << >> =>
          LET x == a.result[1]
              y == b.result[1]
          IN  /\ x.csv = y.csv
              /\ x.parsedRecords = y.parsedRecords
              /\ x.recordCount = y.recordCount
              /\ x.headerLength = y.headerLength
              /\ x.recordLength = y.recordLength
              /\ Len(x.fields) = Len(y.fields)
              /\ \A k \in 1..Len(x.fields) :
                    /\ x.fields[k].name = y.fields[k].name
                    /\ x.fields[k].length = y.fields[k].length

(***************************************************************************)
(* C24.  Two buffers that differ only in bytes 0-3 and 12-31 of the        *)
(* preamble or in bytes 11-15 and 17-31 of a field descriptor end alike:   *)
(* the same error, or results with the same text, the same counts and the  *)
(* same field names and lengths; the type and the decimal count of each    *)
(* returned field are the bytes of its own buffer.                         *)
(***************************************************************************)
C24_UnusedBytesIgnored ==
    /\ \A i \in 1..Len(outcomes) : \A j \in 1..Len(outcomes) :
          UsedBytes(outcomes[i].buffer) = UsedBytes(outcomes[j].buffer) =>
              SameButMetadata(outcomes[i], outcomes[j])
    /\ \A i \in 1..Len(outcomes) :
          outcomes[i].result # << >> =>
              \A k \in 1..Len(outcomes[i].result[1].fields) :
                  LET field == outcomes[i].result[1].fields[k]
                      entry == 32 + 32 * (k - 1)
                  IN  /\ field.type = <<getUint8(outcomes[i].buffer, entry + 11)>>
                      /\ field.decimalCount = getUint8(outcomes[i].buffer, entry + 17)

\* The calls on a buffer and on a variant of it have returned the same text
\* with a data row, and fields of different types.
C24_Witness ==
    /\ phase = "end"
    /\ \E i \in 2..3 :
          /\ outcomes[i].buffer # outcomes[1].buffer
          /\ outcomes[i].result # << >>
          /\ outcomes[1].result # << >>
          /\ outcomes[i].result[1].parsedRecords >= 1
          /\ outcomes[i].result[1].csv = outcomes[1].result[1].csv
          /\ outcomes[i].result[1].fields[1].type
                # outcomes[1].result[1].fields[1].type


(***************************************************************************)
(* C29: in the converter panel, whatever the interleaving of file changes  *)
(* with a conversion that awaits the bytes of its file, a summary that is  *)
(* shown names the file held in dbfFile, and a download URL is held only   *)
(* together with such a summary.                                           *)
(***************************************************************************)
C29_SummaryOfSelectedFile ==
    /\ dbfSummary # << >> =>
          /\ dbfFile # << >>
          /\ dbfSummary[1].fileName = dbfFile[1].name
    /\ dbfCsvUrl # << >> => dbfSummary # << >>

(***************************************************************************)
(* C30: under overlapping rebuildMap calls mapStatus is that of the call   *)
(* started last: it is "ready" only if the createMap promise of that call  *)
(* resolved and "error" only if it rejected.                               *)
(***************************************************************************)
C30_StatusOfLatestCall ==
    /\ mapStatus = "ready" =>
          /\ createMapCalls # << >>
          /\ createMapCalls[Len(createMapCalls)] = "resolved"
    /\ mapStatus = "error" =>
          /\ createMapCalls # << >>
          /\ createMapCalls[Len(createMapCalls)] = "rejected"

=============================================================================
